---- MODULE Spec2Model ----
(***************************************************************************)
(* Model of the remarks decoder (avwx/remarks.py), the HTTP service base   *)
(* (avwx/service/base.py) and the TAF time-window composer exercised by    *)
(* tests/parsing/test_speech.py.                                           *)
(*                                                                         *)
(* A Python str is modelled as a sequence of one-character strings, so     *)
(* that slicing, indexing, startswith, isdigit, split and the substring    *)
(* test are computed character by character as the interpreter does.       *)
(***************************************************************************)
EXTENDS Integers, Sequences, FiniteSets, TLC

VARIABLES
    op,        \* the function being executed ("none" before any call)
    pc,        \* position inside the running function
    args,      \* the arguments of the running call
    remarks,   \* translate: the remarks parameter
    tokens,    \* translate: remarks.split()[1:], the list the loop iterates
    idx,       \* translate: index in tokens of the next loop iteration
    ret,       \* translate: the dict being built
    resp,      \* _call: the response of the awaited request (NoneObj if none)
    cause,     \* _call: the exception the awaited request raised ("none" if none)
    result,    \* value returned by the finished call (None while running)
    exc        \* exception that left the call ("none" if none)

vars == <<op, pc, args, remarks, tokens, idx, ret, resp, cause, result, exc>>

\* the locals of translate and of _call
tvars == <<remarks, tokens, idx, ret>>

hvars == <<resp, cause>>

\* Python's None: where a plain value, where a str and where an object may
\* stand (TLC compares values of one kind only)
None == "None"

NoneStr == <<"None">>

NoneObj == [none |-> TRUE]

(***************************************************************************)
(* Bounds of the explored inputs.                                          *)
(***************************************************************************)
\* a remarks text has at most MaxTokens whitespace tokens
MaxTokens == 3

(***************************************************************************)
(* Python str primitives.                                                  *)
(***************************************************************************)
Digits == <<"0", "1", "2", "3", "4", "5", "6", "7", "8", "9">>

DigitSet == {Digits[i] : i \in 1..10}

Whitespace == {" "}

Min(a, b) == IF a < b THEN a ELSE b

\* s[a:b] with 0 <= a <= b: a slice never raises, it is cut at the end of s
Slice(s, a, b) == SubSeq(s, a + 1, Min(b, Len(s)))

\* s[a:]
SliceFrom(s, a) == SubSeq(s, a + 1, Len(s))

\* s.isdigit() for ASCII text: non-empty and every character a digit
isdigit(s) == Len(s) > 0 /\ \A i \in 1..Len(s) : s[i] \in DigitSet

\* s.startswith(p)
startswith(s, p) == Len(s) >= Len(p) /\ SubSeq(s, 1, Len(p)) = p

\* key in text (substring test)
Contains(text, key) ==
    \E i \in 1..(Len(text) - Len(key) + 1) : SubSeq(text, i, i + Len(key) - 1) = key

DigitVal(c) == CHOOSE i \in 0..9 : Digits[i + 1] = c

\* int(s) for a non-empty string of digits
RECURSIVE int(_)
int(s) == IF Len(s) = 0 THEN 0
          ELSE 10 * int(SubSeq(s, 1, Len(s) - 1)) + DigitVal(s[Len(s)])

\* str(n) for n >= 0, as an f-string field renders an int
RECURSIVE str(_)
str(n) == IF n < 10 THEN <<Digits[n + 1]>>
          ELSE str(n \div 10) \o <<Digits[(n % 10) + 1]>>

\* text.split(): maximal runs of non-whitespace characters, in order
RECURSIVE SplitFrom(_, _, _)
SplitFrom(text, i, cur) ==
    IF i > Len(text)
    THEN IF cur = <<>> THEN <<>> ELSE <<cur>>
    ELSE IF text[i] \in Whitespace
         THEN (IF cur = <<>> THEN <<>> ELSE <<cur>>) \o SplitFrom(text, i + 1, <<>>)
         ELSE SplitFrom(text, i + 1, Append(cur, text[i]))

split(text) == SplitFrom(text, 1, <<>>)

\* d[key] = value on a dict
DictSet(d, key, value) ==
    [k \in (DOMAIN d) \cup {key} |-> IF k = key THEN value ELSE d[k]]

EmptyDict == [k \in {} |-> <<>>]

(***************************************************************************)
(* avwx.static: the lookup tables remarks.py imports (line 5), given by    *)
(* the entries the specification and the docstrings of remarks.py refer    *)
(* to.                                                                     *)
(***************************************************************************)
REMARKS_GROUPS ==
    (<<"A", "C", "F", "T", " ", "M", "S", "H", "P">> :> <<"A", "i", "r", "c", "r", "a", "f", "t", " ", "m", "i", "s", "h", "a", "p">>) @@
    (<<"N", "O", " ", "S", "P", "E", "C", "I">> :> <<"N", "o", " ", "S", "P", "E", "C", "I", " ", "r", "e", "p", "o", "r", "t", "s", " ", "t", "a", "k", "e", "n">>)

REMARKS_ELEMENTS ==
    (<<"$">> :> <<"A", "S", "O", "S", " ", "r", "e", "q", "u", "i", "r", "e", "s", " ", "m", "a", "i", "n", "t", "e", "n", "a", "n", "c", "e">>) @@
    (<<"A", "O", "1">> :> <<"A", "u", "t", "o", "m", "a", "t", "e", "d", " ", "w", "i", "t", "h", " ", "n", "o", " ", "p", "r", "e", "c", "i", "p", "i", "t", "a", "t", "i", "o", "n", " ", "s", "e", "n", "s", "o", "r">>) @@
    (<<"A", "O", "2">> :> <<"A", "u", "t", "o", "m", "a", "t", "e", "d", " ", "w", "i", "t", "h", " ", "p", "r", "e", "c", "i", "p", "i", "t", "a", "t", "i", "o", "n", " ", "s", "e", "n", "s", "o", "r">>) @@
    (<<"S", "L", "P", "N", "O">> :> <<"S", "e", "a", " ", "l", "e", "v", "e", "l", " ", "p", "r", "e", "s", "s", "u", "r", "e", " ", "n", "o", "t", " ", "a", "v", "a", "i", "l", "a", "b", "l", "e">>) @@
    (<<"P", "N", "O">> :> <<"P", "r", "e", "c", "i", "p", "i", "t", "a", "t", "i", "o", "n", " ", "a", "m", "o", "u", "n", "t", " ", "n", "o", "t", " ", "a", "v", "a", "i", "l", "a", "b", "l", "e">>)

WX_TRANSLATIONS ==
    (<<"R", "A">> :> <<"R", "a", "i", "n">>) @@
    (<<"S", "N">> :> <<"S", "n", "o", "w">>) @@
    (<<"F", "G">> :> <<"F", "o", "g">>) @@
    (<<"T", "S">> :> <<"T", "h", "u", "n", "d", "e", "r", "s", "t", "o", "r", "m">>)

\* keys "0".."8" only: the tendency digit of a 5appp group has nine values
PRESSURE_TENDENCIES ==
    ("0" :> <<"I", "n", "c", "r", "e", "a", "s", "i", "n", "g", ",", " ", "t", "h", "e", "n", " ", "d", "e", "c", "r", "e", "a", "s", "i", "n", "g">>) @@
    ("1" :> <<"I", "n", "c", "r", "e", "a", "s", "i", "n", "g", ",", " ", "t", "h", "e", "n", " ", "s", "t", "e", "a", "d", "y">>) @@
    ("2" :> <<"I", "n", "c", "r", "e", "a", "s", "i", "n", "g">>) @@
    ("3" :> <<"D", "e", "c", "r", "e", "a", "s", "i", "n", "g", ",", " ", "t", "h", "e", "n", " ", "i", "n", "c", "r", "e", "a", "s", "i", "n", "g">>) @@
    ("4" :> <<"S", "t", "e", "a", "d", "y">>) @@
    ("5" :> <<"D", "e", "c", "r", "e", "a", "s", "i", "n", "g", ",", " ", "t", "h", "e", "n", " ", "i", "n", "c", "r", "e", "a", "s", "i", "n", "g", " ", "r", "a", "p", "i", "d", "l", "y">>) @@
    ("6" :> <<"D", "e", "c", "r", "e", "a", "s", "i", "n", "g", ",", " ", "t", "h", "e", "n", " ", "s", "t", "e", "a", "d", "y">>) @@
    ("7" :> <<"D", "e", "c", "r", "e", "a", "s", "i", "n", "g">>) @@
    ("8" :> <<"S", "t", "e", "a", "d", "y", ",", " ", "t", "h", "e", "n", " ", "d", "e", "c", "r", "e", "a", "s", "i", "n", "g">>)

(***************************************************************************)
(* remarks.py: the decoders.                                               *)
(***************************************************************************)
Deg == "°"

\* _tdec with the sign test inverted
_tdec_sign_inverted(code, unit) ==
    (IF code[1] = "0" THEN <<"-">> ELSE <<>>)
        \o str(int(Slice(code, 1, 3))) \o <<".">> \o <<code[4]>> \o <<Deg>> \o unit

\* f"{'-' if code[0] == '1' else ''}{int(code[1:3])}.{code[3]}°{unit}"
_tdec(code, unit) ==
    (IF code[1] = "1" THEN <<"-">> ELSE <<>>)
        \o str(int(Slice(code, 1, 3))) \o <<".">> \o <<code[4]>> \o <<Deg>> \o unit

UnitC == <<"C">>

temp_minmax(code) ==
    LET label == IF code[1] = "1" THEN <<"m", "a", "x", "i", "m", "u", "m">> ELSE <<"m", "i", "n", "i", "m", "u", "m">>
    IN  <<"6", "-", "h", "o", "u", "r", " ">> \o label \o <<" ", "t", "e", "m", "p", "e", "r", "a", "t", "u", "r", "e", " ">> \o _tdec(SliceFrom(code, 1), UnitC)

\* raises KeyError when code[1] is not a key of PRESSURE_TENDENCIES
pressure_tendency_raises(code) == code[2] \notin DOMAIN PRESSURE_TENDENCIES

pressure_tendency(code) ==
    LET width == int(Slice(code, 2, 4))
        precision == code[5]
    IN  <<"3", "-", "h", "o", "u", "r", " ", "p", "r", "e", "s", "s", "u", "r", "e", " ", "d", "i", "f", "f", "e", "r", "e", "n", "c", "e", ":", " ", "+", "/", "-", " ">> \o str(width) \o <<".">> \o <<precision>>
            \o <<" ", "m", "b", " ", "-", " ">> \o PRESSURE_TENDENCIES[code[2]]

precip_36(code) ==
    <<"P", "r", "e", "c", "i", "p", "i", "t", "a", "t", "i", "o", "n", " ", "i", "n", " ", "t", "h", "e", " ", "l", "a", "s", "t", " ", "3", " ", "h", "o", "u", "r", "s", ":", " ">> \o str(int(Slice(code, 1, 3)))
        \o <<" ", "i", "n", ".", " ", "-", " ", "6", " ", "h", "o", "u", "r", "s", ":", " ">> \o str(int(SliceFrom(code, 3))) \o <<" ", "i", "n", ".">>

precip_24(code) ==
    <<"P", "r", "e", "c", "i", "p", "i", "t", "a", "t", "i", "o", "n", " ", "i", "n", " ", "t", "h", "e", " ", "l", "a", "s", "t", " ", "2", "4", " ", "h", "o", "u", "r", "s", ":", " ">> \o str(int(SliceFrom(code, 1))) \o <<" ", "i", "n", ".">>

sunshine_duration(code) ==
    <<"D", "u", "r", "a", "t", "i", "o", "n", " ", "o", "f", " ", "s", "u", "n", "l", "i", "g", "h", "t", ":", " ">> \o str(int(SliceFrom(code, 1))) \o <<" ", "m", "i", "n", "u", "t", "e", "s">>

LEN5_DECODE == {"1", "2", "5", "6", "7", "9"}

LEN5_DECODE_call(rmk) ==
    CASE rmk[1] \in {"1", "2"} -> temp_minmax(rmk)
      [] rmk[1] = "5" -> pressure_tendency(rmk)
      [] rmk[1] = "6" -> precip_36(rmk)
      [] rmk[1] = "7" -> precip_24(rmk)
      [] rmk[1] = "9" -> sunshine_duration(rmk)

(***************************************************************************)
(* remarks.py: translate, the values its branches store.                   *)
(***************************************************************************)
\* f'24-hour temperature: max {_tdec(rmk[1:5])} min {_tdec(rmk[1:5])}'
temp_24hour(rmk) ==
    <<"2", "4", "-", "h", "o", "u", "r", " ", "t", "e", "m", "p", "e", "r", "a", "t", "u", "r", "e", ":", " ", "m", "a", "x", " ">> \o _tdec(Slice(rmk, 1, 5), UnitC)
        \o <<" ", "m", "i", "n", " ">> \o _tdec(Slice(rmk, 1, 5), UnitC)

\* rmk[5] raises IndexError on a token shorter than six characters
sea_level_pressure_raises(rmk) == Len(rmk) < 6

\* sea_level_pressure with the tenths read one character early
sea_level_pressure_off_by_one(rmk) ==
    <<"S", "e", "a", " ", "l", "e", "v", "e", "l", " ", "p", "r", "e", "s", "s", "u", "r", "e", ":", " ", "1", "0">> \o Slice(rmk, 3, 5) \o <<".">> \o <<rmk[5]>> \o <<" ", "h", "P", "a">>

\* f'Sea level pressure: 10{rmk[3:5]}.{rmk[5]} hPa'
sea_level_pressure(rmk) ==
    <<"S", "e", "a", " ", "l", "e", "v", "e", "l", " ", "p", "r", "e", "s", "s", "u", "r", "e", ":", " ", "1", "0">> \o Slice(rmk, 3, 5) \o <<".">> \o <<rmk[6]>> \o <<" ", "h", "P", "a">>

\* temp_dewpoint with the dewpoint decoded from the temperature's slice
temp_dewpoint_same_slice(rmk) ==
    <<"T", "e", "m", "p", "e", "r", "a", "t", "u", "r", "e", " ">> \o _tdec(Slice(rmk, 1, 5), UnitC)
        \o <<" ", "a", "n", "d", " ", "d", "e", "w", "p", "o", "i", "n", "t", " ">> \o _tdec(Slice(rmk, 1, 5), UnitC)

\* f'Temperature {_tdec(rmk[1:5])} and dewpoint {_tdec(rmk[5:])}'
temp_dewpoint(rmk) ==
    <<"T", "e", "m", "p", "e", "r", "a", "t", "u", "r", "e", " ">> \o _tdec(Slice(rmk, 1, 5), UnitC)
        \o <<" ", "a", "n", "d", " ", "d", "e", "w", "p", "o", "i", "n", "t", " ">> \o _tdec(SliceFrom(rmk, 5), UnitC)

\* hourly_precip with the hundredths passed through int() as well
hourly_precip_int(rmk) ==
    <<"H", "o", "u", "r", "l", "y", " ", "p", "r", "e", "c", "i", "p", "i", "t", "a", "t", "i", "o", "n", ":", " ">> \o str(int(Slice(rmk, 1, 3))) \o <<".">>
        \o str(int(SliceFrom(rmk, 3))) \o <<" ", "i", "n", ".">>

\* f'Hourly precipitation: {int(rmk[1:3])}.{rmk[3:]} in.'
hourly_precip(rmk) ==
    <<"H", "o", "u", "r", "l", "y", " ", "p", "r", "e", "c", "i", "p", "i", "t", "a", "t", "i", "o", "n", ":", " ">> \o str(int(Slice(rmk, 1, 3))) \o <<".">>
        \o SliceFrom(rmk, 3) \o <<" ", "i", "n", ".">>

\* f'{WX_TRANSLATIONS[rmk[:2]]} {state} at :{int(rmk[3:])}'
wx_began_ended(rmk) ==
    LET state == IF rmk[3] = "B" THEN <<"b", "e", "g", "a", "n">> ELSE <<"e", "n", "d", "e", "d">>
    IN  WX_TRANSLATIONS[Slice(rmk, 0, 2)] \o <<" ">> \o state \o <<" ", "a", "t", " ", ":">>
            \o str(int(SliceFrom(rmk, 3)))

\* the if/elif chain with the SLP test placed before the static table
Branch_slp_first(rmk) ==
    LET rlen == Len(rmk)
    IN  IF startswith(rmk, <<"S", "L", "P">>) THEN "slp"
        ELSE IF rmk \in DOMAIN REMARKS_ELEMENTS THEN "static"
        ELSE IF isdigit(rmk)
             THEN IF rlen = 5 /\ rmk[1] \in LEN5_DECODE THEN "len5"
                  ELSE IF rlen = 9 THEN "len9"
                  ELSE "none"
        ELSE IF rlen = 9 /\ rmk[1] = "T" /\ isdigit(SliceFrom(rmk, 1)) THEN "temp_dew"
        ELSE IF rlen = 5 /\ rmk[1] = "P" /\ isdigit(SliceFrom(rmk, 1)) THEN "precip"
        ELSE IF /\ rlen = 5
                /\ rmk[3] \in {"B", "E"}
                /\ isdigit(SliceFrom(rmk, 3))
                /\ Slice(rmk, 0, 2) \in DOMAIN WX_TRANSLATIONS THEN "wx"
        ELSE "none"

\* the branch of the if/elif chain that one token takes
Branch(rmk) ==
    LET rlen == Len(rmk)
    IN  IF rmk \in DOMAIN REMARKS_ELEMENTS THEN "static"
        ELSE IF isdigit(rmk)
             THEN IF rlen = 5 /\ rmk[1] \in LEN5_DECODE THEN "len5"
                  ELSE IF rlen = 9 THEN "len9"
                  ELSE "none"
        ELSE IF startswith(rmk, <<"S", "L", "P">>) THEN "slp"
        ELSE IF rlen = 9 /\ rmk[1] = "T" /\ isdigit(SliceFrom(rmk, 1)) THEN "temp_dew"
        ELSE IF rlen = 5 /\ rmk[1] = "P" /\ isdigit(SliceFrom(rmk, 1)) THEN "precip"
        ELSE IF /\ rlen = 5
                /\ rmk[3] \in {"B", "E"}
                /\ isdigit(SliceFrom(rmk, 3))
                /\ Slice(rmk, 0, 2) \in DOMAIN WX_TRANSLATIONS THEN "wx"
        ELSE "none"

\* the exception one loop iteration raises, "none" if it completes
BranchRaises(rmk) ==
    CASE Branch(rmk) = "len5" /\ rmk[1] = "5" /\ pressure_tendency_raises(rmk) -> "KeyError"
      [] Branch(rmk) = "slp" /\ sea_level_pressure_raises(rmk) -> "IndexError"
      [] OTHER -> "none"

\* the value ret[rmk] receives in a branch that stores one
BranchValue(rmk) ==
    CASE Branch(rmk) = "static" -> REMARKS_ELEMENTS[rmk]
      [] Branch(rmk) = "len5" -> LEN5_DECODE_call(rmk)
      [] Branch(rmk) = "len9" -> temp_24hour(rmk)
      [] Branch(rmk) = "slp" -> sea_level_pressure(rmk)
      [] Branch(rmk) = "temp_dew" -> temp_dewpoint(rmk)
      [] Branch(rmk) = "precip" -> hourly_precip(rmk)
      [] Branch(rmk) = "wx" -> wx_began_ended(rmk)

\* Pass 1: every group key found in remarks is recorded; the str returned by
\* remarks.replace(key, ' ') is discarded, so remarks itself is unchanged
GroupsFound(text) ==
    [key \in {k \in DOMAIN REMARKS_GROUPS : Contains(text, k)} |-> REMARKS_GROUPS[key]]

\* Pass 2 iterating every token, the first one included
Pass2Tokens_all(text) == split(text)

\* line 79: remarks.split()[1:], the tokens Pass 2 iterates
Pass2Tokens(text) == SliceFrom(split(text), 1)

(***************************************************************************)
(* Inputs.                                                                 *)
(***************************************************************************)
\* tokens joined by single spaces
RECURSIVE Join(_)
Join(toks) ==
    IF Len(toks) = 0 THEN <<>>
    ELSE IF Len(toks) = 1 THEN toks[1]
    ELSE toks[1] \o <<" ">> \o Join(Tail(toks))

SeqsUpTo(S, n) == UNION {[1..k -> S] : k \in 0..n}

\* tokens that may stand anywhere in the text
CommonTokens ==
    {<<"R", "M", "K">>, <<"A", "O", "2">>, <<"A", "C", "F", "T">>, <<"M", "S", "H", "P">>, <<"S", "L", "P", "2", "1", "8">>}

SignDigits == {"0", "1", "5"}

TempCodes ==
    {<<s, a, b, c>> : s \in SignDigits, a \in {"0", "2"}, b \in {"0", "4"}, c \in {"0", "7"}}

TempDewTokens == {<<"T">> \o t \o d : t \in TempCodes, d \in TempCodes}

Len9Tokens == {<<"4">> \o t \o d : t \in {<<"0", "1", "1", "2">>, <<"1", "0", "4", "5">>},
                                   d \in TempCodes}

Len5Tokens ==
    {<<f, a, b, c, d>> : f \in DigitSet, a \in {"0", "3", "8", "9"},
                         b \in {"0", "1"}, c \in {"0", "2"}, d \in {"0", "5"}}

SlpTokens ==
    {<<"S", "L", "P">> \o t : t \in {<<>>, <<"2">>, <<"2", "1">>, <<"N", "O">>, <<"X", "Y", "Z">>,
                           <<"2", "1", "8", "9">>}
                      \cup {<<a, b, c>> : a \in {"0", "2", "9"}, b \in {"0", "1"},
                                          c \in {"0", "8"}}}

PrecipTokens ==
    {<<"P", a, b, c, d>> : a \in {"0", "1"}, b \in {"0", "1", "9"},
                           c \in {"0", "2"}, d \in {"0", "3"}}

WxTokens ==
    {w \o <<s, m, n>> : w \in {<<"R", "A">>, <<"S", "N">>, <<"T", "S">>, <<"X", "X">>}, s \in {"B", "E", "X"},
                        m \in {"0", "1", "5"}, n \in {"0", "5", "9"}}

OtherTokens ==
    {<<"$">>, <<"P", "N", "O">>, <<"F", "O", "O">>, <<"T">>, <<"P">>, <<"P", "B">>, <<"1", "2">>, <<"1", "2", "3", "4", "5", "6", "7">>,
     <<"T", "0", "2", "2", "2", "0", "1", "8">>, <<"P", "0", "1", "A", "3">>, <<"N", "O", " ", "S", "P", "E", "C", "I">>, <<"S", "P", "E", "C", "I">>}

\* tokens that stand last in the text
FocusTokens ==
    TempDewTokens \cup Len9Tokens \cup Len5Tokens \cup SlpTokens \cup PrecipTokens
        \cup WxTokens \cup OtherTokens

\* the texts the specification and the docstrings give as examples
ExampleTexts == {<<"R", "M", "K", " ", "A", "O", "2", " ", "S", "L", "P", "2", "1", "8", " ", "T", "0", "2", "2", "2", "0", "1", "8", "3">>}

RemarksTexts ==
    ExampleTexts
        \cup {Join(pre) : pre \in SeqsUpTo(CommonTokens, MaxTokens)}
        \cup {Join(Append(pre, f)) : pre \in SeqsUpTo(CommonTokens, MaxTokens - 1),
                                         f \in FocusTokens}
        \cup {<<" ">> \o Join(pre) \o <<" ", " ">> \o f \o <<" ">> :
                 pre \in SeqsUpTo(CommonTokens, 1), f \in OtherTokens}

TdecCodes == {<<s, a, b, c>> : s \in DigitSet, a \in DigitSet, b \in DigitSet, c \in DigitSet}

(***************************************************************************)
(* State machine.                                                          *)
(***************************************************************************)
Init ==
    /\ op = "none"
    /\ pc = "idle"
    /\ args = None
    /\ remarks = <<>>
    /\ tokens = <<>>
    /\ idx = 0
    /\ ret = EmptyDict
    /\ resp = NoneObj
    /\ cause = "none"
    /\ result = None
    /\ exc = "none"

\* a direct call of _tdec(code) with the default unit
Call_tdec ==
    /\ pc = "idle"
    /\ \E code \in TdecCodes :
         /\ args' = code
         /\ result' = _tdec(code, UnitC)
    /\ op' = "_tdec"
    /\ pc' = "returned"
    /\ UNCHANGED <<tvars, hvars, exc>>

\* translate(remarks) is entered: ret = {}
Call_translate ==
    /\ pc = "idle"
    /\ \E text \in RemarksTexts :
         /\ args' = text
         /\ remarks' = text
    /\ op' = "translate"
    /\ pc' = "groups"
    /\ ret' = EmptyDict
    /\ UNCHANGED <<tokens, idx, hvars, result, exc>>

\* lines 74-77, the loop over REMARKS_GROUPS, then remarks.split()[1:]
translate_groups ==
    /\ op = "translate" /\ pc = "groups"
    /\ ret' = GroupsFound(remarks)
    /\ tokens' = Pass2Tokens(remarks)
    /\ idx' = 1
    /\ pc' = "elements"
    /\ UNCHANGED <<op, args, remarks, hvars, result, exc>>

\* lines 79-103, one iteration of the loop over the tokens
translate_element ==
    /\ op = "translate" /\ pc = "elements"
    /\ idx <= Len(tokens)
    /\ LET rmk == tokens[idx]
       IN  \/ /\ BranchRaises(rmk) # "none"
              /\ exc' = BranchRaises(rmk)
              /\ pc' = "raised"
              /\ UNCHANGED <<ret, idx>>
           \/ /\ BranchRaises(rmk) = "none"
              /\ Branch(rmk) # "none"
              /\ ret' = DictSet(ret, rmk, BranchValue(rmk))
              /\ idx' = idx + 1
              /\ UNCHANGED <<pc, exc>>
           \/ /\ Branch(rmk) = "none"
              /\ idx' = idx + 1
              /\ UNCHANGED <<ret, pc, exc>>
    /\ UNCHANGED <<op, args, remarks, tokens, hvars, result>>

\* line 104
translate_return ==
    /\ op = "translate" /\ pc = "elements"
    /\ idx > Len(tokens)
    /\ result' = ret
    /\ pc' = "returned"
    /\ UNCHANGED <<op, args, tvars, hvars, exc>>

(***************************************************************************)
(* service/base.py: CallsHTTP._call.                                       *)
(***************************************************************************)
\* the part of str.lower() that the method names need
LowerChar(c) ==
    CASE c = "G" -> "g" [] c = "E" -> "e" [] c = "T" -> "t"
      [] c = "P" -> "p" [] c = "O" -> "o" [] c = "S" -> "s"
      [] OTHER -> c

lower(s) == [i \in 1..Len(s) |-> LowerChar(s[i])]

Methods == {<<"G", "E", "T">>, <<"P", "O", "S", "T">>, <<"g", "e", "t">>, <<"p", "o", "s", "t">>, <<"P", "o", "s", "t">>}

\* lines 63-68: the client method that is awaited
Verb(method) == IF lower(method) = <<"p", "o", "s", "t">> THEN "post" ELSE "get"

\* The exceptions an awaited client.get/client.post can end with, each with
\* the classes it is an instance of.  The first seven are the classes the
\* except clauses name; httpcore.ReadError is a subclass of
\* httpcore.NetworkError; httpx.WriteTimeout and httpx.PoolTimeout are the
\* remaining timeouts of the client, and httpx.TooManyRedirects one of its
\* other request errors.
Bases ==
    ("httpx.ConnectTimeout" :> {"httpx.ConnectTimeout"}) @@
    ("httpx.ReadTimeout" :> {"httpx.ReadTimeout"}) @@
    ("httpcore.ReadTimeout" :> {"httpcore.ReadTimeout"}) @@
    ("socket.gaierror" :> {"socket.gaierror"}) @@
    ("httpcore.ConnectError" :> {"httpcore.ConnectError"}) @@
    ("httpx.ConnectError" :> {"httpx.ConnectError"}) @@
    ("httpcore.NetworkError" :> {"httpcore.NetworkError"}) @@
    ("httpcore.ReadError" :> {"httpcore.ReadError", "httpcore.NetworkError"}) @@
    ("httpx.WriteTimeout" :> {"httpx.WriteTimeout"}) @@
    ("httpx.PoolTimeout" :> {"httpx.PoolTimeout"}) @@
    ("httpx.TooManyRedirects" :> {"httpx.TooManyRedirects"})

RequestExceptions == DOMAIN Bases

\* lines 71-75, 77 and 81: the classes of the three except clauses
TimeoutClasses == {"httpx.ConnectTimeout", "httpx.ReadTimeout", "httpcore.ReadTimeout"}

ConnectClasses == {"socket.gaierror", "httpcore.ConnectError", "httpx.ConnectError"}

NetworkClasses == {"httpcore.NetworkError"}

\* lines 71-84: the exception that leaves _call when the try body raised e;
\* an exception no clause matches propagates as it is
Handle(e) ==
    IF Bases[e] \cap TimeoutClasses # {} THEN "TimeoutError"
    ELSE IF Bases[e] \cap ConnectClasses # {} THEN "ConnectionError"
    ELSE IF Bases[e] \cap NetworkClasses # {} THEN "ConnectionError"
    ELSE e

StatusCodes == {200, 204, 301, 404, 500, 503}

ResponseTexts == {"", "KJFK 051251Z 18004KT 10SM FEW250 22/18 A2992"}

\* _call is entered; the try body awaits client.post or client.get
Call_call ==
    /\ pc = "idle"
    /\ \E method \in Methods : args' = [method |-> method, verb |-> Verb(method)]
    /\ op' = "_call"
    /\ pc' = "request"
    /\ UNCHANGED <<tvars, hvars, result, exc>>

\* lines 62-68 and 71-84: the awaited request raises; the except clauses
\* translate the exception or let it pass
call_request_raises ==
    /\ op = "_call" /\ pc = "request"
    /\ \E e \in RequestExceptions :
         /\ cause' = e
         /\ exc' = Handle(e)
    /\ pc' = "raised"
    /\ UNCHANGED <<op, args, tvars, resp, result>>

\* lines 69-70 and 85: the request completed with a response
call_response ==
    /\ op = "_call" /\ pc = "request"
    /\ \E status \in StatusCodes, text \in ResponseTexts :
         /\ resp' = [status_code |-> status, text |-> text]
         /\ IF status # 200
            THEN /\ exc' = "SourceError"
                 /\ pc' = "raised"
                 /\ UNCHANGED result
            ELSE /\ result' = text
                 /\ pc' = "returned"
                 /\ UNCHANGED exc
    /\ UNCHANGED <<op, args, tvars, cause>>

(***************************************************************************)
(* parsing/speech.py: type_and_times, with core.make_timestamp and         *)
(* core.make_number, as the clause table of the specification and the      *)
(* cases of TestSpeech.test_type_and_times describe them.                  *)
(***************************************************************************)
\* "DDHH": the day of month and the hour of day
make_timestamp(raw) ==
    IF raw = NoneStr THEN NoneObj
    ELSE [raw |-> raw, day |-> int(Slice(raw, 0, 2)), hour |-> int(Slice(raw, 2, 4))]

\* a Number: no object for absent or empty input, the variable sentinel for
\* "VRB", else the magnitude of the digits
make_number(raw) ==
    IF raw = NoneStr \/ raw = <<>> THEN NoneObj
    ELSE IF raw = <<"V", "R", "B">> THEN [raw |-> raw, value |-> 0, sentinel |-> "variable"]
    ELSE [raw |-> raw, value |-> int(raw), sentinel |-> "none"]

\* HourText without the midnight rule
HourText_digits(ts) == str(ts.hour)

\* the hour of day, without the day; hour 0 is spoken as midnight
HourText(ts) == IF ts.hour = 0 THEN <<"m", "i", "d", "n", "i", "g", "h", "t">> ELSE str(ts.hour)

type_and_times(type, start, end, probability) ==
    IF type = None THEN <<>>
    ELSE IF type = "BECMG" THEN <<"A", "t", " ">> \o HourText(start) \o <<" ", "z", "u", "l", "u", " ", "b", "e", "c", "o", "m", "i", "n", "g">>
    ELSE LET from == <<"F", "r", "o", "m", " ">> \o HourText(start) \o <<" ", "t", "o", " ">> \o HourText(end) \o <<" ", "z", "u", "l", "u", ",">>
             chance == IF probability # NoneObj
                       THEN <<" ", "t", "h", "e", "r", "e", "'", "s", " ", "a", " ">> \o str(probability.value) \o <<"%", " ", "c", "h", "a", "n", "c", "e", " ", "f", "o", "r">>
                       ELSE <<>>
             kind == IF type = "INTER" THEN <<" ", "i", "n", "t", "e", "r", "m", "i", "t", "t", "e", "n", "t">>
                     ELSE IF type = "TEMPO" THEN <<" ", "t", "e", "m", "p", "o", "r", "a", "r", "y">>
                     ELSE <<>>
         IN  from \o chance \o kind

TwoDigits(n) == <<Digits[(n \div 10) + 1], Digits[(n % 10) + 1]>>

TimeRaws == {TwoDigits(d) \o TwoDigits(h) : d \in {1, 25}, h \in 0..23}

ProbabilityRaws == {<<"3", "0">>, <<"4", "0">>, <<"4", "5">>}

\* the argument tuples of the clause table: a probability comes with PROB and
\* may come with INTER; BECMG may lack an end time; no type comes with no times
TafLineArgs ==
    {<<None, NoneStr, NoneStr, NoneStr>>}
        \cup {<<t, s, e, NoneStr>> : t \in {"FROM", "INTER", "TEMPO", "BECMG"},
                                  s \in TimeRaws, e \in TimeRaws}
        \cup {<<"BECMG", s, NoneStr, NoneStr>> : s \in TimeRaws}
        \cup {<<t, s, e, p>> : t \in {"PROB", "INTER"}, s \in TimeRaws, e \in TimeRaws,
                               p \in ProbabilityRaws}

Call_type_and_times ==
    /\ pc = "idle"
    /\ \E a \in TafLineArgs :
         /\ args' = [type |-> a[1], start |-> a[2], end |-> a[3], probability |-> a[4]]
         /\ result' = type_and_times(a[1], make_timestamp(a[2]), make_timestamp(a[3]),
                                     make_number(a[4]))
    /\ op' = "type_and_times"
    /\ pc' = "returned"
    /\ UNCHANGED <<tvars, hvars, exc>>

(***************************************************************************)
(* service/base.py: Service.__init__.                                      *)
(***************************************************************************)
\* _valid_types of the base class (line 26) and of subclasses that declare
\* one or two report types
ValidTypes ==
    ("Service" :> <<>>) @@
    ("MetarOnly" :> <<"metar">>) @@
    ("MetarTaf" :> <<"metar", "taf">>)

ServiceClasses == DOMAIN ValidTypes

ReportTypes == {"metar", "taf", "pirep", ""}

\* report_type in a tuple
InTuple(x, t) == \E i \in 1..Len(t) : t[i] = x

\* __init__ with the emptiness test of line 29 left out
init_raises_no_empty_test(cls, report_type) == ~InTuple(report_type, ValidTypes[cls])

\* lines 29-31: the condition under which __init__ raises ValueError; a
\* tuple is true when it is not empty
init_raises(cls, report_type) ==
    Len(ValidTypes[cls]) > 0 /\ ~InTuple(report_type, ValidTypes[cls])

\* lines 28-36: cls(report_type)
Call_Service_init ==
    /\ pc = "idle"
    /\ \E cls \in ServiceClasses, report_type \in ReportTypes :
         /\ args' = [cls |-> cls, report_type |-> report_type]
         /\ IF init_raises(cls, report_type)
            THEN /\ exc' = "ValueError"
                 /\ pc' = "raised"
                 /\ UNCHANGED result
            ELSE /\ result' = [cls |-> cls, report_type |-> report_type]
                 /\ pc' = "returned"
                 /\ UNCHANGED exc
    /\ op' = "Service.__init__"
    /\ UNCHANGED <<tvars, hvars>>

(***************************************************************************)
(* parsing/translate/base.py: get_cardinal_direction and wind, and         *)
(* parsing/speech.py: wind, as sections 4.5 and 4.6 of the specification   *)
(* and the cases of TestMetar.test_cardinal_direction, TestMetar.test_wind *)
(* and TestSpeech.test_wind describe them.                                 *)
(***************************************************************************)
\* the 16 labels in compass order, N first
Cardinals ==
    <<<<"N">>, <<"N", "N", "E">>, <<"N", "E">>, <<"E", "N", "E">>, <<"E">>, <<"E", "S", "E">>, <<"S", "E">>, <<"S", "S", "E">>,
      <<"S">>, <<"S", "S", "W">>, <<"S", "W">>, <<"W", "S", "W">>, <<"W">>, <<"W", "N", "W">>, <<"N", "W">>, <<"N", "N", "W">>>>

\* sectors cut at the multiples of 22.5 degrees, without the half-sector
\* offset that centres N on 0
get_cardinal_direction_no_offset(direction) ==
    Cardinals[(((4 * (direction % 360)) \div 90) % 16) + 1]

\* the direction wraps at 360; sector k covers 22.5 degrees centred on
\* 22.5 * k, that is 45 + 90 * (k - 1) <= 4 * direction < 45 + 90 * k
get_cardinal_direction(direction) ==
    Cardinals[(((4 * (direction % 360) + 45) \div 90) % 16) + 1]

Call_get_cardinal_direction ==
    /\ pc = "idle"
    /\ \E direction \in (0 - 10)..371 :
         /\ args' = direction
         /\ result' = get_cardinal_direction(direction)
    /\ op' = "get_cardinal_direction"
    /\ pc' = "returned"
    /\ UNCHANGED <<tvars, hvars, exc>>

DigitWords ==
    <<<<"z", "e", "r", "o">>, <<"o", "n", "e">>, <<"t", "w", "o">>, <<"t", "h", "r", "e", "e">>, <<"f", "o", "u", "r">>, <<"f", "i", "v", "e">>, <<"s", "i", "x">>, <<"s", "e", "v", "e", "n">>,
      <<"e", "i", "g", "h", "t">>, <<"n", "i", "n", "e">>>>

\* a heading spoken digit by digit: "360" is "three six zero"
RECURSIVE SpokenDigits(_)
SpokenDigits(raw) ==
    IF Len(raw) = 0 THEN <<>>
    ELSE IF Len(raw) = 1 THEN DigitWords[DigitVal(raw[1]) + 1]
    ELSE DigitWords[DigitVal(raw[1]) + 1] \o <<" ">> \o SpokenDigits(Tail(raw))

\* the heading as the renderer writes it: the raw digits, or the digit words
Heading(number, spoken) == IF spoken THEN SpokenDigits(number.raw) ELSE number.raw

\* the clauses after the direction: variable pair, speed, gust; each omitted
\* when its field is absent or zero
WindClauses(speed, gust, vardir, spoken) ==
    (IF vardir # <<>>
     THEN <<" ", "(", "v", "a", "r", "i", "a", "b", "l", "e", " ">> \o Heading(vardir[1], spoken) \o <<" ", "t", "o", " ">>
              \o Heading(vardir[2], spoken) \o <<")">>
     ELSE <<>>)
        \o (IF speed # NoneObj /\ speed.value # 0
            THEN <<" ", "a", "t", " ">> \o str(speed.value) \o <<"k", "t">> ELSE <<>>)
        \o (IF gust # NoneObj /\ gust.value # 0
            THEN <<" ", "g", "u", "s", "t", "i", "n", "g", " ", "t", "o", " ">> \o str(gust.value) \o <<"k", "t">> ELSE <<>>)

IsCalm(direction, speed) ==
    /\ direction # NoneObj /\ direction.sentinel = "none" /\ direction.value = 0
    /\ speed # NoneObj /\ speed.sentinel = "none" /\ speed.value = 0

WindDirection(direction, spoken) ==
    IF direction = NoneObj THEN <<>>
    ELSE IF direction.sentinel = "variable" THEN <<"V", "a", "r", "i", "a", "b", "l", "e">>
    ELSE (IF spoken THEN <<>> ELSE get_cardinal_direction(direction.value) \o <<"-">>)
             \o Heading(direction, spoken)

\* wind with Calm written in place of the direction only
wind_calm_as_direction(direction, speed, gust, vardir, spoken) ==
    (IF IsCalm(direction, speed) THEN <<"C", "a", "l", "m">> ELSE WindDirection(direction, spoken))
        \o WindClauses(speed, gust, vardir, spoken)

\* translate.base.wind: direction 0 with speed 0 is Calm and nothing else;
\* otherwise '{DIR}-{deg} (variable {a} to {b}) at {speed}kt gusting to {gust}kt'
wind(direction, speed, gust, vardir, spoken) ==
    IF IsCalm(direction, speed) THEN <<"C", "a", "l", "m">>
    ELSE WindDirection(direction, spoken) \o WindClauses(speed, gust, vardir, spoken)

\* speech.wind: the lead 'Winds ' and the spoken wind, 'unknown' if it is empty
speech_wind(direction, speed, gust, vardir) ==
    LET val == wind(direction, speed, gust, vardir, TRUE)
    IN  <<"W", "i", "n", "d", "s", " ">> \o (IF val = <<>> THEN <<"u", "n", "k", "n", "o", "w", "n">> ELSE val)

DirectionRaws == {<<>>, <<"0", "0", "0">>, <<"0">>, <<"3", "6", "0">>, <<"2", "7", "0">>, <<"V", "R", "B">>}

SpeedRaws == {<<>>, <<"0", "0">>, <<"0">>, <<"5">>, <<"1", "2">>}

GustRaws == {<<>>, <<"0">>, <<"2", "0">>}

VardirRaws == {<<>>, <<<<"3", "4", "0">>, <<"0", "2", "0">>>>, <<<<"2", "4", "0">>, <<"3", "0", "0">>>>}

WindArgs ==
    {[direction |-> d, speed |-> s, gust |-> g, vardir |-> v] :
        d \in DirectionRaws, s \in SpeedRaws, g \in GustRaws, v \in VardirRaws}

make_vardir(raws) == [i \in 1..Len(raws) |-> make_number(raws[i])]

Call_translate_wind ==
    /\ pc = "idle"
    /\ \E a \in WindArgs :
         /\ args' = a
         /\ result' = wind(make_number(a.direction), make_number(a.speed),
                           make_number(a.gust), make_vardir(a.vardir), FALSE)
    /\ op' = "translate.wind"
    /\ pc' = "returned"
    /\ UNCHANGED <<tvars, hvars, exc>>

Call_speech_wind ==
    /\ pc = "idle"
    /\ \E a \in WindArgs :
         /\ args' = a
         /\ result' = speech_wind(make_number(a.direction), make_number(a.speed),
                                  make_number(a.gust), make_vardir(a.vardir))
    /\ op' = "speech.wind"
    /\ pc' = "returned"
    /\ UNCHANGED <<tvars, hvars, exc>>

Next ==
    \/ Call_tdec
    \/ Call_translate
    \/ translate_groups
    \/ translate_element
    \/ translate_return
    \/ Call_call
    \/ call_request_raises
    \/ call_response
    \/ Call_type_and_times
    \/ Call_Service_init
    \/ Call_get_cardinal_direction
    \/ Call_translate_wind
    \/ Call_speech_wind

Spec == Init /\ [][Next]_vars

TypeOK == pc \in {"idle", "groups", "elements", "request", "returned", "raised"}

(***************************************************************************)
(* Properties.                                                             *)
(***************************************************************************)
Returned(f) == op = f /\ pc = "returned"

\* the whitespace tokens of a text after the first one
NonFirstTokens(text) == {split(text)[i] : i \in 2..Len(split(text))}

\* a temperature in tenths of a degree: minus sign iff the sign digit is 1,
\* the whole part as a number, a point, the tenths digit, the unit
SignedTenths(c) ==
    (IF c[1] = "1" THEN <<"-">> ELSE <<>>)
        \o (IF c[2] = "0" THEN <<c[3]>> ELSE <<c[2], c[3]>>)
        \o <<".", c[4], Deg, "C">>

IsTempDew(tok) == Len(tok) = 9 /\ tok[1] = "T" /\ \A i \in 2..9 : tok[i] \in DigitSet

IsSlp3(tok) == Len(tok) = 6 /\ SubSeq(tok, 1, 3) = <<"S", "L", "P">> /\ \A i \in 4..6 : tok[i] \in DigitSet

IsLen9(tok) == Len(tok) = 9 /\ \A i \in 1..9 : tok[i] \in DigitSet

IsPrecip(tok) == Len(tok) = 5 /\ tok[1] = "P" /\ \A i \in 2..5 : tok[i] \in DigitSet

IsWxTime(tok) ==
    /\ Len(tok) = 5
    /\ SubSeq(tok, 1, 2) \in DOMAIN WX_TRANSLATIONS
    /\ tok[3] \in {"B", "E"}
    /\ tok[4] \in DigitSet /\ tok[5] \in DigitSet

\* C1: translate finishes without raising for every remarks text, and a token
\* that matches none of the rules (a)-(f) has no entry in the returned mapping.
C1_NeverRaises ==
    op = "translate" =>
        /\ pc # "raised"
        /\ exc = "none"
        /\ pc = "returned" =>
              \A tok \in NonFirstTokens(args) :
                  (/\ tok \notin DOMAIN REMARKS_ELEMENTS
                   /\ ~IsTempDew(tok) /\ ~IsPrecip(tok) /\ ~IsWxTime(tok)
                   /\ ~(\A i \in 1..Len(tok) : tok[i] \in DigitSet)
                   /\ ~(Len(tok) >= 3 /\ SubSeq(tok, 1, 3) = <<"S", "L", "P">>))
                      => tok \notin DOMAIN result

C3_SignIffOne ==
    (Returned("_tdec") /\ args[1] \in {"0", "1"}) =>
        (result[1] = "-" <=> args[1] = "1")

C3_Witness == Returned("_tdec") /\ args[1] = "1" /\ result[1] = "-"

\* C4: _tdec writes the two whole-part digits exactly as they stand in the
\* code, then a point, the tenths digit and the unit ('1045' gives '-04.5°C').
C4_DigitsAsWritten ==
    Returned("_tdec") =>
        /\ result = (IF args[1] = "1" THEN <<"-">> ELSE <<>>)
                        \o <<args[2], args[3], ".", args[4], Deg, "C">>
        /\ args = <<"1", "0", "4", "5">> => result = <<"-", "0", "4", ".", "5", "°", "C">>
        /\ args = <<"0", "2", "3", "7">> => result = <<"2", "3", ".", "7", "°", "C">>

\* C5: a non-first token SLP d1 d2 d3 outside the static table maps to
\* 'Sea level pressure: 10<d1><d2>.<d3> hPa'.
C5_SeaLevelPressure ==
    Returned("translate") =>
        \A tok \in NonFirstTokens(args) :
            (IsSlp3(tok) /\ tok \notin DOMAIN REMARKS_ELEMENTS) =>
                /\ tok \in DOMAIN result
                /\ result[tok] = <<"S", "e", "a", " ", "l", "e", "v", "e", "l", " ", "p", "r", "e", "s", "s", "u", "r", "e", ":", " ", "1", "0">> \o <<tok[4], tok[5], ".", tok[6]>>
                                    \o <<" ", "h", "P", "a">>
                /\ tok = <<"S", "L", "P", "2", "1", "8">> => result[tok] = <<"S", "e", "a", " ", "l", "e", "v", "e", "l", " ", "p", "r", "e", "s", "s", "u", "r", "e", ":", " ", "1", "0", "2", "1", ".", "8", " ", "h", "P", "a">>

C5_Witness ==
    /\ Returned("translate")
    /\ \E tok \in NonFirstTokens(args) :
          IsSlp3(tok) /\ tok[4] = "0" /\ tok \in DOMAIN result

\* C6: an all-digit 9-character non-first token gives a 24-hour temperature
\* pair with the maximum decoded from characters 2-5 and the minimum decoded
\* from characters 6-9.
C6_MaxMin24 ==
    Returned("translate") =>
        \A tok \in NonFirstTokens(args) :
            (IsLen9(tok) /\ tok \notin DOMAIN REMARKS_ELEMENTS) =>
                /\ tok \in DOMAIN result
                /\ result[tok] = <<"2", "4", "-", "h", "o", "u", "r", " ", "t", "e", "m", "p", "e", "r", "a", "t", "u", "r", "e", ":", " ", "m", "a", "x", " ">> \o SignedTenths(SubSeq(tok, 2, 5))
                                    \o <<" ", "m", "i", "n", " ">> \o SignedTenths(SubSeq(tok, 6, 9))

\* C7: _call returns the response text only for a completed request with
\* status 200; every other execution raises TimeoutError (connect or read
\* timeout), ConnectionError (name resolution, connect or other network
\* failure) or SourceError (status other than 200).
C7_DistinguishedErrors ==
    (op = "_call" /\ pc \in {"returned", "raised"}) =>
        /\ pc = "returned" => (resp # NoneObj /\ resp.status_code = 200 /\ result = resp.text)
        /\ pc = "raised" =>
              /\ exc \in {"TimeoutError", "ConnectionError", "SourceError"}
              /\ exc = "SourceError" <=> (resp # NoneObj /\ resp.status_code # 200)

\* C8 as stated: a non-first token P d1 d2 d3 d4 maps to 'Hourly
\* precipitation: <d1d2>.<d3d4> in.' with <d1d2> the first two digits as written.
C8_DigitsAsWritten ==
    Returned("translate") =>
        \A tok \in NonFirstTokens(args) :
            (IsPrecip(tok) /\ tok \notin DOMAIN REMARKS_ELEMENTS) =>
                /\ tok \in DOMAIN result
                /\ result[tok] = <<"H", "o", "u", "r", "l", "y", " ", "p", "r", "e", "c", "i", "p", "i", "t", "a", "t", "i", "o", "n", ":", " ">>
                                    \o <<tok[2], tok[3], ".", tok[4], tok[5]>> \o <<" ", "i", "n", ".">>

\* C8 as amended: the whole part is the number the first two digits denote,
\* written without a leading zero; the last two digits are kept as written.
C8_HourlyPrecip ==
    Returned("translate") =>
        \A tok \in NonFirstTokens(args) :
            (IsPrecip(tok) /\ tok \notin DOMAIN REMARKS_ELEMENTS) =>
                /\ tok \in DOMAIN result
                /\ result[tok] = <<"H", "o", "u", "r", "l", "y", " ", "p", "r", "e", "c", "i", "p", "i", "t", "a", "t", "i", "o", "n", ":", " ">>
                                    \o (IF tok[2] = "0" THEN <<tok[3]>> ELSE <<tok[2], tok[3]>>)
                                    \o <<".", tok[4], tok[5]>> \o <<" ", "i", "n", ".">>

C8_Witness ==
    /\ Returned("translate")
    /\ \E tok \in NonFirstTokens(args) :
          IsPrecip(tok) /\ tok[2] = "0" /\ tok[4] = "0" /\ tok[5] # "0" /\ tok \in DOMAIN result

\* C9: a 5-character non-first token <phenomenon><B|E><MM> maps to
\* '<phenomenon> began at :MM' or '<phenomenon> ended at :MM', MM being the
\* two minute digits of the token.
C9_BeganEnded ==
    Returned("translate") =>
        \A tok \in NonFirstTokens(args) :
            (IsWxTime(tok) /\ tok \notin DOMAIN REMARKS_ELEMENTS) =>
                /\ tok \in DOMAIN result
                /\ result[tok] = WX_TRANSLATIONS[SubSeq(tok, 1, 2)]
                                    \o (IF tok[3] = "B" THEN <<" ", "b", "e", "g", "a", "n", " ", "a", "t", " ", ":">> ELSE <<" ", "e", "n", "d", "e", "d", " ", "a", "t", " ", ":">>)
                                    \o <<tok[4], tok[5]>>

\* the hour of day as the clause table writes it
SpokenHour(raw) ==
    LET h == 10 * DigitVal(raw[3]) + DigitVal(raw[4])
    IN  IF h = 0 THEN <<"m", "i", "d", "n", "i", "g", "h", "t">>
        ELSE IF h < 10 THEN <<raw[4]>>
        ELSE <<raw[3], raw[4]>>

FromTo(a) == <<"F", "r", "o", "m", " ">> \o SpokenHour(a.start) \o <<" ", "t", "o", " ">> \o SpokenHour(a.end) \o <<" ", "z", "u", "l", "u", ",">>

Chance(a) == <<" ", "t", "h", "e", "r", "e", "'", "s", " ", "a", " ">> \o a.probability \o <<"%", " ", "c", "h", "a", "n", "c", "e", " ", "f", "o", "r">>

DecodesToZero(raw) == Len(raw) > 0 /\ \A i \in 1..Len(raw) : raw[i] = "0"

CalmCase ==
    /\ op \in {"translate.wind", "speech.wind"} /\ pc = "returned"
    /\ DecodesToZero(args.direction) /\ DecodesToZero(args.speed)

SectorKeys == <<12, 34, 57, 79>>

SectorLower(i) == SectorKeys[(i % 4) + 1] + 90 * (i \div 4)

SectorUpper(i) == SectorLower(i + 1) - 1

\* C12: for every direction from -10 to 371 the label is N when d <= 11 or
\* d >= 349, and otherwise the one label of the 16 in compass order from NNE
\* whose sector contains d; every direction gets exactly one label.
C12_Sectors ==
    Returned("get_cardinal_direction") =>
        /\ (args <= 11 \/ args >= 349) => result = <<"N">>
        /\ (args > 11 /\ args < 349) =>
              /\ \A i \in 0..14 :
                    (SectorLower(i) <= args /\ args <= SectorUpper(i)) =>
                        result = Cardinals[i + 2]
              /\ Cardinality({i \in 0..14 : SectorLower(i) <= args /\ args <= SectorUpper(i)}) = 1
        /\ args = 33 => result = <<"N", "N", "E">>
        /\ args = 34 => result = <<"N", "E">>
        /\ args = 101 => result = <<"E">>
        /\ args = 327 => result = <<"N", "N", "W">>
        /\ args = 348 => result = <<"N", "N", "W">>

C12_Witness == Returned("get_cardinal_direction") /\ args = 348 /\ result = <<"N", "N", "W">>

\* text.replace(old, new): every occurrence, left to right, without overlap
RECURSIVE replace(_, _, _)
replace(text, old, new) ==
    IF Len(text) < Len(old) THEN text
    ELSE IF SubSeq(text, 1, Len(old)) = old
         THEN new \o replace(SubSeq(text, Len(old) + 1, Len(text)), old, new)
         ELSE <<text[1]>> \o replace(Tail(text), old, new)

\* the text with every Pass-1 group replaced by a blank
Masked(text) == replace(replace(text, <<"A", "C", "F", "T", " ", "M", "S", "H", "P">>, <<" ">>), <<"N", "O", " ", "S", "P", "E", "C", "I">>, <<" ">>)

InPass2 == op = "translate" /\ pc \in {"elements", "returned", "raised"}

\* C13: a Pass-1 group found in the text is recorded with its phrase, and its
\* text is removed before Pass 2 tokenizes, so that Pass 2 iterates no token
\* that lies inside the matched group.
C13_GroupsRemoved ==
    InPass2 =>
        /\ \A key \in DOMAIN REMARKS_GROUPS :
              Contains(args, key) => (key \in DOMAIN ret /\ ret[key] = REMARKS_GROUPS[key])
        /\ tokens = SubSeq(split(Masked(args)), 2, Len(split(Masked(args))))

\* the rule of the list (a)-(f) that a token meets first
RuleOf(tok) ==
    IF tok \in DOMAIN REMARKS_ELEMENTS THEN "a"
    ELSE IF \A i \in 1..Len(tok) : tok[i] \in DigitSet THEN "b"
    ELSE IF Len(tok) >= 3 /\ SubSeq(tok, 1, 3) = <<"S", "L", "P">> THEN "c"
    ELSE IF IsTempDew(tok) THEN "d"
    ELSE IF IsPrecip(tok) THEN "e"
    ELSE IF IsWxTime(tok) THEN "f"
    ELSE "none"

Begins(text, prefix) == Len(text) >= Len(prefix) /\ SubSeq(text, 1, Len(prefix)) = prefix

DigitPhrases ==
    {<<"6", "-", "h", "o", "u", "r", " ">>, <<"3", "-", "h", "o", "u", "r", " ", "p", "r", "e", "s", "s", "u", "r", "e", " ", "d", "i", "f", "f", "e", "r", "e", "n", "c", "e", ":", " ">>, <<"P", "r", "e", "c", "i", "p", "i", "t", "a", "t", "i", "o", "n", " ", "i", "n", " ", "t", "h", "e", " ", "l", "a", "s", "t", " ">>,
     <<"D", "u", "r", "a", "t", "i", "o", "n", " ", "o", "f", " ", "s", "u", "n", "l", "i", "g", "h", "t", ":", " ">>, <<"2", "4", "-", "h", "o", "u", "r", " ", "t", "e", "m", "p", "e", "r", "a", "t", "u", "r", "e", ":", " ">>}

\* the entry of token tok in the mapping d is the one its first rule makes
EntryOfFirstRule(tok, d) ==
    CASE RuleOf(tok) = "a" -> tok \in DOMAIN d /\ d[tok] = REMARKS_ELEMENTS[tok]
      [] RuleOf(tok) = "b" -> tok \in DOMAIN d => \E p \in DigitPhrases : Begins(d[tok], p)
      [] RuleOf(tok) = "c" -> tok \in DOMAIN d /\ Begins(d[tok], <<"S", "e", "a", " ", "l", "e", "v", "e", "l", " ", "p", "r", "e", "s", "s", "u", "r", "e", ":", " ", "1", "0">>)
      [] RuleOf(tok) = "d" -> tok \in DOMAIN d /\ Begins(d[tok], <<"T", "e", "m", "p", "e", "r", "a", "t", "u", "r", "e", " ">>)
      [] RuleOf(tok) = "e" -> tok \in DOMAIN d /\ Begins(d[tok], <<"H", "o", "u", "r", "l", "y", " ", "p", "r", "e", "c", "i", "p", "i", "t", "a", "t", "i", "o", "n", ":", " ">>)
      [] RuleOf(tok) = "f" ->
            /\ tok \in DOMAIN d
            /\ \/ Begins(d[tok], WX_TRANSLATIONS[SubSeq(tok, 1, 2)] \o <<" ", "b", "e", "g", "a", "n", " ", "a", "t", " ", ":">>)
               \/ Begins(d[tok], WX_TRANSLATIONS[SubSeq(tok, 1, 2)] \o <<" ", "e", "n", "d", "e", "d", " ", "a", "t", " ", ":">>)
      [] OTHER -> tok \notin DOMAIN d

\* C14: Pass 2 handles each non-first token by the first rule it matches in
\* the order (a)-(f), with at most one entry, keyed by the token; a token of
\* the static table always receives its static phrase.
C14_FirstRule ==
    InPass2 =>
        /\ \A j \in 1..(idx - 1) : EntryOfFirstRule(tokens[j], ret)
        /\ DOMAIN ret \subseteq
              {k \in DOMAIN REMARKS_GROUPS : Contains(args, k)}
                  \cup {tokens[j] : j \in 1..(idx - 1)}
        /\ pc = "raised" => tokens[idx] \notin DOMAIN REMARKS_ELEMENTS

C14_Witness ==
    /\ Returned("translate")
    /\ <<"S", "L", "P", "N", "O">> \in NonFirstTokens(args)
    /\ result[<<"S", "L", "P", "N", "O">>] = REMARKS_ELEMENTS[<<"S", "L", "P", "N", "O">>]

AllDigits(tok) == \A i \in 1..Len(tok) : tok[i] \in DigitSet

\* the phrase a 5-digit code starts with, by its first digit
Len5Phrase(first) ==
    CASE first = "1" -> <<"6", "-", "h", "o", "u", "r", " ", "m", "a", "x", "i", "m", "u", "m", " ", "t", "e", "m", "p", "e", "r", "a", "t", "u", "r", "e", " ">>
      [] first = "2" -> <<"6", "-", "h", "o", "u", "r", " ", "m", "i", "n", "i", "m", "u", "m", " ", "t", "e", "m", "p", "e", "r", "a", "t", "u", "r", "e", " ">>
      [] first = "5" -> <<"3", "-", "h", "o", "u", "r", " ", "p", "r", "e", "s", "s", "u", "r", "e", " ", "d", "i", "f", "f", "e", "r", "e", "n", "c", "e", ":", " ">>
      [] first = "6" -> <<"P", "r", "e", "c", "i", "p", "i", "t", "a", "t", "i", "o", "n", " ", "i", "n", " ", "t", "h", "e", " ", "l", "a", "s", "t", " ", "3", " ", "h", "o", "u", "r", "s", ":", " ">>
      [] first = "7" -> <<"P", "r", "e", "c", "i", "p", "i", "t", "a", "t", "i", "o", "n", " ", "i", "n", " ", "t", "h", "e", " ", "l", "a", "s", "t", " ", "2", "4", " ", "h", "o", "u", "r", "s", ":", " ">>
      [] first = "9" -> <<"D", "u", "r", "a", "t", "i", "o", "n", " ", "o", "f", " ", "s", "u", "n", "l", "i", "g", "h", "t", ":", " ">>

\* what C15 says of one all-digit token outside the static table
DigitDispatch(tok, d) ==
    IF Len(tok) = 5 /\ tok[1] \in {"1", "2", "5", "6", "7", "9"}
    THEN tok \in DOMAIN d /\ Begins(d[tok], Len5Phrase(tok[1]))
    ELSE IF Len(tok) = 9 THEN TRUE
    ELSE tok \notin DOMAIN d

\* C15: an all-digit 5-character token is decoded by its first digit alone
\* (1 and 2 six-hour maximum and minimum temperature, 5 pressure tendency,
\* 6 three-and-six-hour precipitation, 7 24-hour precipitation, 9 sunshine);
\* first digits 0, 3, 4, 8 and all-digit tokens of a length other than 5 and
\* 9 give no entry.
C15_Len5Dispatch ==
    InPass2 =>
        /\ \A j \in 1..(idx - 1) :
              (AllDigits(tokens[j]) /\ tokens[j] \notin DOMAIN REMARKS_ELEMENTS) =>
                  DigitDispatch(tokens[j], ret)
        /\ pc = "raised" => ~AllDigits(tokens[idx])

\* C17: every key of the returned mapping is a Pass-1 group that occurs in
\* the text or a whitespace token of the text other than the first; Pass 2
\* never iterates the first token; the input text is unchanged.
C17_Keys ==
    InPass2 =>
        /\ \A k \in DOMAIN ret :
              \/ k \in DOMAIN REMARKS_GROUPS /\ Contains(args, k)
              \/ k \in NonFirstTokens(args)
        /\ Len(tokens) = (IF split(args) = <<>> THEN 0 ELSE Len(split(args)) - 1)
        /\ \A j \in 1..Len(tokens) : tokens[j] = split(args)[j + 1]
        /\ remarks = args
        /\ pc = "returned" => result = ret

C17_Witness ==
    /\ Returned("translate")
    /\ split(args) # <<>>
    /\ split(args)[1] \in DOMAIN REMARKS_ELEMENTS
    /\ split(args)[1] \notin DOMAIN result
    /\ \E k \in DOMAIN REMARKS_GROUPS : k \in DOMAIN result

\* C16: constructing a Service raises ValueError, and yields no instance, if
\* and only if the class declares a non-empty set of valid types that lacks
\* the report type; otherwise the instance's report_type is the argument.
C16_ValidTypes ==
    (op = "Service.__init__" /\ pc \in {"returned", "raised"}) =>
        LET valid == {ValidTypes[args.cls][i] : i \in 1..Len(ValidTypes[args.cls])}
            rejected == valid # {} /\ args.report_type \notin valid
        IN  /\ pc = "raised" <=> rejected
            /\ pc = "raised" => exc = "ValueError"
            /\ pc = "returned" => (exc = "none" /\ result.report_type = args.report_type)

C16_Witness ==
    /\ op = "Service.__init__" /\ pc = "returned"
    /\ ValidTypes[args.cls] = <<>> /\ args.report_type = "pirep"
    /\ result.report_type = "pirep"
====
